---------------------------- MODULE Spec2Model ----------------------------
(***************************************************************************)
(* Model of server.js: an Express proxy in front of the Redmine REST API.  *)
(*                                                                         *)
(* One behaviour follows one inbound HTTP request from its arrival to its  *)
(* response.  Requests share no mutable state (redmineConfig is written    *)
(* once at process start), so concurrent requests do not interact.         *)
(* A step is the code that runs between two `await` points of a handler.   *)
(*                                                                         *)
(* JavaScript values: strings are TLA+ strings, `undefined`/`null` is      *)
(* NoValue, an optional number or object is the empty or one-element       *)
(* sequence.  String concatenation is the concatenation of sequences of    *)
(* string pieces.                                                          *)
(***************************************************************************)
EXTENDS Integers, Sequences, FiniteSets, TLC

\* Bounds of the model.
MaxFiles == 2
MaxProjects == 3
MaxProjectId == 2

VARIABLES
    redmineConfig,  \* server.js:38  { url, apiKey, defaultProjectId }
    pc,             \* position of the request's handler
    req,            \* the inbound request: route, body, files, params
    userInfo,       \* server.js:249 the parsed user_info (or null)
    uploads,        \* server.js:268 the upload references collected so far
    fileIdx,        \* position of the for..of loop over req.files
    inflight,       \* outbound axios calls issued and not yet settled
    events          \* what the process did, in order: outbound requests,
                    \* their settlements, audit lines, HTTP responses

vars == <<redmineConfig, pc, req, userInfo, uploads, fileIdx, inflight, events>>

----------------------------------------------------------------------------
\* JavaScript values

NoValue == "<undefined>"

\* ToBoolean of a string-or-undefined value.
Truthy(s) == s # NoValue /\ s # ""

\* a || b
Or(a, b) == IF Truthy(a) THEN a ELSE b

\* `${x}` in a template literal
Str(x) == IF x = NoValue THEN "undefined" ELSE x

----------------------------------------------------------------------------
\* Configuration (server.js:38-42)

Urls == {NoValue, "http://redmine.local", "https://redmine.local"}
ApiKeys == {NoValue, "secret-key"}

\* redmineConfig.url.startsWith('https://')
IsHttps(url) == url = "https://redmine.local"

\* !redmineConfig.url || !redmineConfig.apiKey, negated
CredentialsConfigured ==
    Truthy(redmineConfig.url) /\ Truthy(redmineConfig.apiKey)

CredentialsMessage == "Las credenciales de Redmine no estan configuradas."
IssueIdMessage == "Cannot read properties of undefined (reading 'id')"

----------------------------------------------------------------------------
\* What axios can come back with

\* A rejected axios promise: an HTTP error status with a (possibly empty)
\* body, or a transport failure without any response.
AxiosErrors ==
    { [kind |-> "http", hasResponse |-> TRUE, status |-> 422,
       data |-> "{errors:[Subject cannot be blank]}",
       message |-> "Request failed with status code 422", code |-> "ERR_BAD_REQUEST"],
      [kind |-> "http", hasResponse |-> TRUE, status |-> 404,
       data |-> "",
       message |-> "Request failed with status code 404", code |-> "ERR_BAD_REQUEST"],
      [kind |-> "transport", hasResponse |-> FALSE, status |-> 0,
       data |-> NoValue,
       message |-> "connect ECONNREFUSED", code |-> "ECONNREFUSED"] }

\* error.response?.data
ResponseData(err) == IF err.hasResponse THEN err.data ELSE NoValue

\* error.response?.status
ResponseStatus(err) == IF err.hasResponse THEN <<err.status>> ELSE <<>>

\* The catch block of callRedmineAPI.
CallFailure(err) ==
    [success |-> FALSE,
     error   |-> Or(ResponseData(err), err.message),
     status  |-> ResponseStatus(err),
     code    |-> err.code]

\* The result of callRedmineAPI when the credentials check throws.
CredentialsFailure ==
    [success |-> FALSE, error |-> CredentialsMessage,
     status |-> <<>>, code |-> NoValue]

CallSuccess(data) == [success |-> TRUE, data |-> data]

\* The axios config callRedmineAPI builds.
AxiosRequest(endpoint, method, data) ==
    [type     |-> "request",
     method   |-> method,
     url      |-> <<redmineConfig.url, endpoint>>,
     endpoint |-> endpoint,
     apiKey   |-> redmineConfig.apiKey,
     contentType |-> "application/json",
     agent    |-> IF IsHttps(redmineConfig.url) THEN "httpsAgent" ELSE "httpAgent",
     file     |-> 0,
     data     |-> data]

\* The axios.post uploadFileToRedmine issues for the file at position i.
UploadRequest(i, file) ==
    [type     |-> "request",
     method   |-> "POST",
     url      |-> <<redmineConfig.url, "/uploads.json">>,
     endpoint |-> "/uploads.json",
     apiKey   |-> redmineConfig.apiKey,
     contentType |-> "application/octet-stream",
     agent    |-> IF IsHttps(redmineConfig.url) THEN "httpsAgent" ELSE "httpAgent",
     file     |-> i,
     data     |-> file.buffer]

\* An outbound call has settled: an upload (file i), or a callRedmineAPI call
\* with what axios came back with.
Settled(endpoint, i, ok) ==
    [type |-> "settled", endpoint |-> endpoint, file |-> i, ok |-> ok]

SettledCall(endpoint, ok, outcome) ==
    [type |-> "settled", endpoint |-> endpoint, file |-> 0, ok |-> ok,
     outcome |-> outcome]

Response(status, body) == [type |-> "response", status |-> status, body |-> body]

\* Mutant: the upstream status is dropped.
StatusAlways500(result) == 500

\* res.status(result.status || 500)
StatusOr500(result) == IF result.status = <<>> THEN 500 ELSE result.status[1]

\* The failure branch every route shares.
ErrorResponse(title, result) ==
    Response(StatusOr500(result), [error |-> title, details |-> result.error])

----------------------------------------------------------------------------
\* GET /api/projects: the project hierarchy (server.js:154-189)

\* String(n) for the ids of the model: Object.fromEntries turns the keys of the
\* Map into property names.
DigitStrings == <<"1", "2", "3", "4", "5", "6", "7", "8", "9">>
KeyString(n) == DigitStrings[n]

\* A project as Redmine lists it; parent is <<>> or <<id of the parent>>.
Projects == [id : 1..MaxProjectId, parent : {<<>>} \cup {<<p>> : p \in 1..MaxProjectId}]
ProjectLists == UNION {[1..n -> Projects] : n \in 0..MaxProjects}

\* The bodies /projects.json can come back with: with or without `projects`.
ProjectsData ==
    {[hasProjects |-> TRUE, projects |-> l] : l \in ProjectLists}
        \cup {[hasProjects |-> FALSE, projects |-> <<>>]}

\* A Map as its entries in insertion order.
MapHas(m, k) == \E i \in 1..Len(m) : m[i].key = k

\* Mutant: the group is set anew on every subproject.
MapPushResets(m, k, v) ==
    IF MapHas(m, k)
    THEN [i \in 1..Len(m) |->
            IF m[i].key = k THEN [key |-> k, value |-> <<v>>] ELSE m[i]]
    ELSE Append(m, [key |-> k, value |-> <<v>>])

\* if (!map.has(k)) map.set(k, []); map.get(k).push(v)
MapPush(m, k, v) ==
    IF MapHas(m, k)
    THEN [i \in 1..Len(m) |->
            IF m[i].key = k
            THEN [key |-> k, value |-> Append(m[i].value, v)]
            ELSE m[i]]
    ELSE Append(m, [key |-> k, value |-> <<v>>])

\* { ...project, parent_id: parentId }
SubprojectEntry(project) ==
    [id |-> project.id, parent |-> project.parent, parent_id |-> project.parent[1]]

\* { ...project, has_subprojects: false }
MainEntry(project) ==
    [id |-> project.id, parent |-> project.parent, has_subprojects |-> FALSE]

\* if (project.parent)
IsSubproject(project) == project.parent # <<>>

\* projects.forEach(...): the state <<mainProjects, subprojectsByParent>> after
\* the first n projects.
RECURSIVE Partition(_, _)
Partition(projects, n) ==
    IF n = 0 THEN [mainProjects |-> <<>>, subprojectsByParent |-> <<>>]
    ELSE LET before == Partition(projects, n - 1)
             project == projects[n]
         IN IF IsSubproject(project)
            THEN [mainProjects |-> before.mainProjects,
                  subprojectsByParent |->
                      MapPush(before.subprojectsByParent, project.parent[1],
                              SubprojectEntry(project))]
            ELSE [mainProjects |-> Append(before.mainProjects, MainEntry(project)),
                  subprojectsByParent |-> before.subprojectsByParent]

\* mainProjects.forEach(p => p.has_subprojects = subprojectsByParent.has(p.id))
MarkParents(mainProjects, subprojectsByParent) ==
    [i \in 1..Len(mainProjects) |->
        [mainProjects[i] EXCEPT !.has_subprojects =
            MapHas(subprojectsByParent, mainProjects[i].id)]]

\* Object.fromEntries(map): one property per key string, a later entry with
\* the same key string replacing an earlier one.
ObjectFromEntries(m) ==
    [k \in {KeyString(m[i].key) : i \in 1..Len(m)} |->
        LET last == CHOOSE i \in 1..Len(m) :
                        /\ KeyString(m[i].key) = k
                        /\ \A j \in (i + 1)..Len(m) : KeyString(m[j].key) # k
        IN m[last].value]

\* The body of the success branch of GET /api/projects.
ShapeProjects(data) ==
    LET projects == IF data.hasProjects THEN data.projects ELSE <<>>
        parts == Partition(projects, Len(projects))
    IN [main_projects |-> MarkParents(parts.mainProjects, parts.subprojectsByParent),
        subprojects   |-> ObjectFromEntries(parts.subprojectsByParent),
        total_count   |-> Len(projects)]

----------------------------------------------------------------------------
\* POST /api/tickets: the inbound request (server.js:227-262)

FileNames == <<"a.png", "b.pdf", "c.txt", "d.doc", "e.jpg", "f.log">>
MimeTypes == <<"image/png", "application/pdf", "text/plain", "application/msword",
               "image/jpeg", "text/x-log">>

\* req.files: what multer hands over, in the order of the form.
File(i) == [originalname |-> FileNames[i], mimetype |-> MimeTypes[i], buffer |-> i]
FileLists == {[i \in 1..n |-> File(i)] : n \in 0..MaxFiles}

\* The texts user_info is drawn from, and what JSON.parse makes of each.
MalformedJson == "{name:"
UserInfoTexts ==
    {NoValue, MalformedJson, "null", "{name}", "{name,email:''}", "{name,email}",
     "{sub,name,email,username}"}

User(sub, name, email, username) ==
    [sub |-> sub, name |-> name, email |-> email, username |-> username]

\* JSON.parse(text) for the well-formed texts: null, or an object.
JSONparse(text) ==
    CASE text = "null" -> <<>>
      [] text = "{name}" -> <<User(NoValue, "Ana", NoValue, NoValue)>>
      [] text = "{name,email:''}" -> <<User(NoValue, "Ana", "", NoValue)>>
      [] text = "{name,email}" -> <<User(NoValue, "Ana", "ana@mail.py", NoValue)>>
      [] text = "{sub,name,email,username}" ->
            <<User("kc-1", "Ana", "ana@mail.py", "ana")>>

\* let userInfo = null; try { userInfo = user_info ? JSON.parse(user_info) : null }
\* catch { console.warn(...) }
ParseUserInfo(user_info) ==
    IF ~Truthy(user_info) THEN <<>>
    ELSE IF user_info = MalformedJson THEN <<>>
    ELSE JSONparse(user_info)

Bodies ==
    [project_id : {NoValue, "7"},
     subject : {"", "Printer broken"},
     description : {"", "No enciende"},
     tracker_id : {NoValue, "3"},
     priority_id : {NoValue, "4"},
     modulo : {NoValue, "", "Ventas"},
     numero_tramite : {NoValue, "12345"},
     identificador_operacion : {NoValue, "OP-2024-001"},
     user_info : UserInfoTexts]

\* if (!subject || !description)
MissingRequired(body) == ~Truthy(body.subject) \/ ~Truthy(body.description)

\* Mutant: the email of the identity is not checked.
MissingIdentityNullOnly(ui) == ui = <<>>

\* if (!userInfo || !userInfo.email)
MissingIdentity(ui) == ui = <<>> \/ ~Truthy(ui[1].email)

ValidationResponse ==
    Response(400, [error |-> "Campos requeridos faltantes",
                   details |-> "subject y description son obligatorios"])

IdentityResponse ==
    Response(400, [error |-> "Informacion de usuario no disponible",
                   details |-> "Se requiere informacion del usuario autenticado para crear el ticket"])

----------------------------------------------------------------------------
\* POST /api/tickets: uploads (server.js:107-140, 268-279)

\* The 2xx bodies /uploads.json can come back with for file i: with the upload
\* object and its token, or without it.
UploadData(i) ==
    {[hasUpload |-> TRUE, token |-> <<"token", i>>],
     [hasUpload |-> FALSE, token |-> <<>>]}

\* What uploadFileToRedmine returns when axios.post resolves with `data`:
\* reading data.upload.token of a body without `upload` throws into the catch.
UploadResolved(file, data) ==
    IF data.hasUpload
    THEN [success |-> TRUE,
          upload  |-> [token |-> data.token, filename |-> file.originalname,
                       content_type |-> file.mimetype]]
    ELSE [success |-> FALSE, upload |-> <<>>]

\* Mutant: the push is not guarded by uploadResult.success.
PushUploadUnguarded(list, uploadResult) == Append(list, uploadResult.upload)

\* if (uploadResult.success) uploads.push(uploadResult.upload)
PushUpload(list, uploadResult) ==
    IF uploadResult.success THEN Append(list, uploadResult.upload) ELSE list

----------------------------------------------------------------------------
\* POST /api/tickets: description and payload (server.js:281-313)

RequesterSection(ui) ==
    <<"\n\n---\n**Informacion del Solicitante:**\n",
      "- **Nombre:** ", Str(ui.name), "\n",
      "- **Email:** ", Str(ui.email), "\n">>
    \o (IF Truthy(ui.username)
        THEN <<"- **Usuario Keycloak:** ", Str(ui.username), "\n">>
        ELSE <<>>)

AdditionalHeader == "\n**Informacion Adicional:**\n"
ModuloLabel == "- **Modulo:** "
TramiteLabel == "- **Numero de tramite:** "
OperacionLabel == "- **Identificador de operacion:** "

\* Mutant: the section is opened on modulo alone.
AdditionalSectionOnModulo(body) ==
    IF Truthy(body.modulo)
    THEN <<AdditionalHeader, ModuloLabel, body.modulo, "\n">>
         \o (IF Truthy(body.numero_tramite)
             THEN <<TramiteLabel, body.numero_tramite, "\n">> ELSE <<>>)
         \o (IF Truthy(body.identificador_operacion)
             THEN <<OperacionLabel, body.identificador_operacion, "\n">> ELSE <<>>)
    ELSE <<>>

AdditionalSection(body) ==
    IF Truthy(body.modulo) \/ Truthy(body.numero_tramite)
           \/ Truthy(body.identificador_operacion)
    THEN <<AdditionalHeader>>
         \o (IF Truthy(body.modulo)
             THEN <<ModuloLabel, body.modulo, "\n">> ELSE <<>>)
         \o (IF Truthy(body.numero_tramite)
             THEN <<TramiteLabel, body.numero_tramite, "\n">> ELSE <<>>)
         \o (IF Truthy(body.identificador_operacion)
             THEN <<OperacionLabel, body.identificador_operacion, "\n">> ELSE <<>>)
    ELSE <<>>

\* fullDescription, as the pieces concatenated into it
FullDescription(body, ui) ==
    <<body.description>> \o RequesterSection(ui) \o AdditionalSection(body)

DefaultTrackerId == 1
DefaultPriorityId == 2

\* x || n for a form field x and a number n
FieldOrNumber(x, n) == IF Truthy(x) THEN <<"string", x>> ELSE <<"number", n>>

\* issueData.issue without uploads
BaseIssue(body, ui) ==
    [project_id  |-> Or(body.project_id, redmineConfig.defaultProjectId),
     subject     |-> body.subject,
     description |-> FullDescription(body, ui),
     tracker_id  |-> FieldOrNumber(body.tracker_id, DefaultTrackerId),
     priority_id |-> FieldOrNumber(body.priority_id, DefaultPriorityId)]

\* Mutant: uploads is attached even when empty.
IncludeUploadsAlways(list) == TRUE

\* if (uploads.length > 0) issueData.issue.uploads = uploads
IncludeUploads(list) == Len(list) > 0

IssueData(body, ui, list) ==
    IF IncludeUploads(list)
    THEN [issue |-> BaseIssue(body, ui) @@ [uploads |-> list]]
    ELSE [issue |-> BaseIssue(body, ui)]

----------------------------------------------------------------------------
\* POST /api/tickets: the outcome of the create call (server.js:317-376)

\* The 2xx bodies /issues.json can come back with: with or without `issue`.
IssueBodies ==
    {[hasIssue |-> TRUE, issue |-> [id |-> 101]],
     [hasIssue |-> FALSE, issue |-> [id |-> 0]]}

AuditUser(ui) ==
    [keycloak_id |-> ui.sub, email |-> ui.email, username |-> ui.username,
     name |-> ui.name]

\* console.log('AUDIT:', ...)
SuccessAudit(body, ui, ticketId, list) ==
    [type |-> "audit", action |-> "CREATE_TICKET", user |-> AuditUser(ui),
     ticket |-> [redmine_id |-> ticketId, project_id |-> body.project_id,
                 subject |-> body.subject, tracker_id |-> body.tracker_id,
                 priority_id |-> body.priority_id],
     attachments |-> Len(list)]

\* console.error('ERROR AUDIT:', ...)
FailureAudit(ui, message) ==
    [type |-> "audit", action |-> "CREATE_TICKET_FAILED",
     user |-> [email |-> ui.email, username |-> ui.username, name |-> ui.name],
     error |-> message]

\* Mutant: the catch block writes its audit line and sends nothing.
CatchBlockSilent(ui, message) ==
    IF ui # <<>> THEN <<FailureAudit(ui[1], message)>> ELSE <<>>

\* The catch block of the handler.
CatchBlock(ui, message) ==
    (IF ui # <<>> THEN <<FailureAudit(ui[1], message)>> ELSE <<>>)
    \o <<Response(500, [error |-> "Error interno del servidor", details |-> message])>>

\* res.status(201).json(...)
CreatedResponse(issue, list) ==
    Response(201, [message |-> "Ticket creado exitosamente", ticket |-> issue,
                   attachmentsUploaded |-> Len(list)])

\* if (result.success) {...} else {...}, with the catch around it: the audit
\* lines and the response, in the order they are written.
HandleCreateResult(body, ui, list, result) ==
    IF result.success
    THEN IF result.data.hasIssue
         THEN <<SuccessAudit(body, ui[1], result.data.issue.id, list),
                CreatedResponse(result.data.issue, list)>>
         ELSE CatchBlock(ui, IssueIdMessage)
    ELSE <<ErrorResponse("Error al crear ticket", result)>>

----------------------------------------------------------------------------
Init ==
    /\ redmineConfig \in [url : Urls, apiKey : ApiKeys, defaultProjectId : {"1"}]
    /\ pc = "idle"
    /\ req = [route |-> "none"]
    /\ userInfo = <<>>
    /\ uploads = <<>>
    /\ fileIdx = 1
    /\ inflight = {}
    /\ events = <<>>

\* What the handler leaves untouched outside the ticket route.
NoTicketState == UNCHANGED <<userInfo, uploads, fileIdx>>

\* GET /health
Health ==
    /\ pc = "idle"
    /\ req' = [route |-> "health"]
    /\ events' = events \o <<Response(200, [status |-> "ok"])>>
    /\ pc' = "done"
    /\ UNCHANGED <<redmineConfig, inflight>>
    /\ NoTicketState

\* callRedmineAPI(endpoint) as a GET route calls it, up to its await: without
\* credentials the call fails at once and the route answers; with them the
\* axios call is issued.
CallForRoute(route, endpoint, title) ==
    /\ pc = "idle"
    /\ req' = [route |-> route, endpoint |-> endpoint, title |-> title]
    /\ IF CredentialsConfigured
       THEN /\ events' = events \o <<AxiosRequest(endpoint, "GET", NoValue)>>
            /\ inflight' = inflight \cup {AxiosRequest(endpoint, "GET", NoValue)}
            /\ pc' = "awaitGet"
       ELSE /\ events' = events \o <<ErrorResponse(title, CredentialsFailure)>>
            /\ inflight' = inflight
            /\ pc' = "done"
    /\ UNCHANGED redmineConfig
    /\ NoTicketState

\* GET /api/projects
GetProjects ==
    CallForRoute("projects", "/projects.json?include=descendants",
                 "Error al obtener proyectos")

\* GET /api/trackers
GetTrackers == CallForRoute("trackers", "/trackers.json", "Error al obtener trackers")

\* GET /api/priorities
GetPriorities ==
    CallForRoute("priorities", "/enumerations/issue_priorities.json",
                 "Error al obtener prioridades")

\* GET /api/tickets/:id
GetTicket == CallForRoute("ticket", "/issues/42.json", "Error al obtener ticket")

\* The axios call of a GET route fails: res.status(result.status || 500)
GetFails ==
    /\ pc = "awaitGet"
    /\ \E call \in inflight, err \in AxiosErrors :
          /\ inflight' = inflight \ {call}
          /\ events' = events \o <<SettledCall(call.endpoint, FALSE, err),
                                   ErrorResponse(req.title, CallFailure(err))>>
    /\ pc' = "done"
    /\ UNCHANGED <<redmineConfig, req>>
    /\ NoTicketState

\* /projects.json answers: the hierarchy is shaped and returned.
ProjectsSucceed ==
    /\ pc = "awaitGet"
    /\ req.route = "projects"
    /\ \E call \in inflight, data \in ProjectsData :
          /\ inflight' = inflight \ {call}
          /\ req' = [req EXCEPT !.title = req.title] @@ [upstream |-> data]
          /\ events' = events \o <<SettledCall(call.endpoint, TRUE, data),
                                   Response(200, ShapeProjects(CallSuccess(data).data))>>
    /\ pc' = "done"
    /\ UNCHANGED redmineConfig
    /\ NoTicketState

\* The other GET routes answer: res.json(result.data)
RawSucceed ==
    /\ pc = "awaitGet"
    /\ req.route \in {"trackers", "priorities", "ticket"}
    /\ \E call \in inflight :
          /\ inflight' = inflight \ {call}
          /\ events' = events \o <<SettledCall(call.endpoint, TRUE, "raw upstream JSON"),
                                   Response(200, CallSuccess("raw upstream JSON").data)>>
    /\ pc' = "done"
    /\ UNCHANGED <<redmineConfig, req>>
    /\ NoTicketState

\* POST /api/tickets up to the try block: validation and identity.
PostTickets ==
    /\ pc = "idle"
    /\ \E body \in Bodies, files \in FileLists :
          /\ req' = [route |-> "tickets", body |-> body, files |-> files]
          /\ IF MissingRequired(body)
             THEN /\ userInfo' = userInfo
                  /\ events' = events \o <<ValidationResponse>>
                  /\ pc' = "done"
             ELSE /\ userInfo' = ParseUserInfo(body.user_info)
                  /\ IF MissingIdentity(userInfo')
                     THEN /\ events' = events \o <<IdentityResponse>>
                          /\ pc' = "done"
                     ELSE /\ events' = events
                          /\ pc' = "uploadLoop"
    /\ uploads' = <<>>
    /\ fileIdx' = 1
    /\ UNCHANGED <<redmineConfig, inflight>>

\* Mutant: the loop does not await the upload it started.
AtLoopHeadNotAwaiting == pc \in {"uploadLoop", "awaitUpload"}

\* The handler stands at the head of the for..of loop, nothing awaited.
AtLoopHead == pc = "uploadLoop"

\* uploadFileToRedmine(file) up to its await.  Without a url, url.startsWith
\* throws into the catch and the upload has failed without a request; else
\* axios.post is issued, whatever the api key.
UploadFileToRedmine ==
    /\ AtLoopHead
    /\ fileIdx <= Len(req.files)
    /\ IF redmineConfig.url = NoValue
       THEN /\ uploads' = PushUpload(uploads, [success |-> FALSE, upload |-> <<>>])
            /\ fileIdx' = fileIdx + 1
            /\ UNCHANGED <<pc, inflight, events>>
       ELSE /\ events' = events \o <<UploadRequest(fileIdx, req.files[fileIdx])>>
            /\ inflight' = inflight \cup {UploadRequest(fileIdx, req.files[fileIdx])}
            /\ pc' = "awaitUpload"
            /\ UNCHANGED <<uploads, fileIdx>>
    /\ UNCHANGED <<redmineConfig, req, userInfo>>

\* The upload resumes the loop with its result: pushed on success, dropped
\* otherwise.
UploadResumes(call, uploadResult) ==
    /\ inflight' = inflight \ {call}
    /\ events' = events \o <<Settled(call.endpoint, call.file, uploadResult.success)>>
    /\ uploads' = PushUpload(uploads, uploadResult)
    /\ fileIdx' = fileIdx + 1
    /\ pc' = "uploadLoop"
    /\ UNCHANGED <<redmineConfig, req, userInfo>>

\* axios.post to /uploads.json resolves.
UploadSucceeds ==
    /\ pc = "awaitUpload"
    /\ \E call \in inflight :
          /\ call.endpoint = "/uploads.json"
          /\ \E data \in UploadData(call.file) :
                UploadResumes(call, UploadResolved(req.files[call.file], data))

\* axios.post to /uploads.json rejects.
UploadFails ==
    /\ pc = "awaitUpload"
    /\ \E call \in inflight, err \in AxiosErrors :
          /\ call.endpoint = "/uploads.json"
          /\ UploadResumes(call, [success |-> FALSE, upload |-> <<>>])

\* After the loop: the description, the payload and callRedmineAPI up to its
\* await.  Without credentials the call has failed without a request and the
\* handler answers.
CreateIssue ==
    /\ AtLoopHead
    /\ fileIdx > Len(req.files)
    /\ LET issueData == IssueData(req.body, userInfo[1], uploads)
       IN IF CredentialsConfigured
          THEN /\ events' = events \o <<AxiosRequest("/issues.json", "POST", issueData)>>
               /\ inflight' = inflight \cup {AxiosRequest("/issues.json", "POST", issueData)}
               /\ pc' = "awaitCreate"
          ELSE /\ events' = events \o HandleCreateResult(req.body, userInfo, uploads,
                                                         CredentialsFailure)
               /\ inflight' = inflight
               /\ pc' = "done"
    /\ UNCHANGED <<redmineConfig, req, userInfo, uploads, fileIdx>>

\* The create call settles and the handler answers.
CreateResumes(call, outcome, result) ==
    /\ inflight' = inflight \ {call}
    /\ events' = events \o <<SettledCall(call.endpoint, result.success, outcome)>>
                        \o HandleCreateResult(req.body, userInfo, uploads, result)
    /\ pc' = "done"
    /\ UNCHANGED <<redmineConfig, req, userInfo, uploads, fileIdx>>

\* axios resolves for POST /issues.json.
CreateSucceeds ==
    /\ pc = "awaitCreate"
    /\ \E call \in inflight :
          /\ call.endpoint = "/issues.json"
          /\ \E data \in IssueBodies : CreateResumes(call, data, CallSuccess(data))

\* axios rejects for POST /issues.json.
CreateFails ==
    /\ pc = "awaitCreate"
    /\ \E call \in inflight :
          /\ call.endpoint = "/issues.json"
          /\ \E err \in AxiosErrors : CreateResumes(call, err, CallFailure(err))

Next ==
    \/ Health
    \/ GetProjects
    \/ GetTrackers
    \/ GetPriorities
    \/ GetTicket
    \/ GetFails
    \/ ProjectsSucceed
    \/ RawSucceed
    \/ PostTickets
    \/ UploadFileToRedmine
    \/ UploadSucceeds
    \/ UploadFails
    \/ CreateIssue
    \/ CreateSucceeds
    \/ CreateFails

Spec == Init /\ [][Next]_vars

\* What runs once a ticket request is in: the settlement of an awaited axios
\* call and the handler code that follows it.
TicketResumes ==
    \/ UploadFileToRedmine
    \/ UploadSucceeds
    \/ UploadFails
    \/ CreateIssue
    \/ CreateSucceeds
    \/ CreateFails

\* Every axios call the ticket handler awaits settles (resolves or rejects),
\* and the handler runs on when it does.  No request has to arrive.
FairSpec == Spec /\ WF_vars(TicketResumes)

----------------------------------------------------------------------------
\* Reading the history

EventsOf(type) == {i \in 1..Len(events) : events[i].type = type}

\* Outbound HTTP requests handed to axios, by endpoint.
RequestsTo(endpoint) ==
    {i \in EventsOf("request") : events[i].endpoint = endpoint}

SettledAt(endpoint) ==
    {i \in EventsOf("settled") : events[i].endpoint = endpoint}

UploadRequests == RequestsTo("/uploads.json")
CreateRequests == RequestsTo("/issues.json")

\* The attachments whose upload came back successful.
UploadedFiles == {events[i].file : i \in {j \in SettledAt("/uploads.json") : events[j].ok}}

TicketRequest == req.route = "tickets"
Responded(status) == \E i \in EventsOf("response") : events[i].status = status

\* The request as the caller sent it, in the words of the specification.
SubjectOrDescriptionEmpty == req.body.subject = "" \/ req.body.description = ""
IdentityUnusable ==
    req.body.user_info \in {NoValue, MalformedJson, "null", "{name}", "{name,email:''}"}

----------------------------------------------------------------------------
\* C1: with no configured API key, no route ever hands a request to axios
\* (attachment uploads included).  Stated as the claim has it; the upload
\* path does not check the key.
NoApiKeyNoNetworkCall ==
    redmineConfig.apiKey = NoValue => EventsOf("request") = {}

\* C2: the create payload carries exactly the M successful uploads, the
\* `uploads` field is absent exactly when M = 0, and a 201 response reports
\* attachmentsUploaded = M.
UploadsMatchSuccesses ==
    /\ \A i \in CreateRequests :
          LET issue == events[i].data.issue
          IN /\ ("uploads" \in DOMAIN issue) <=> (Cardinality(UploadedFiles) > 0)
             /\ ("uploads" \in DOMAIN issue)
                   => Len(issue.uploads) = Cardinality(UploadedFiles)
    /\ \A i \in EventsOf("response") :
          (TicketRequest /\ events[i].status = 201)
              => events[i].body.attachmentsUploaded = Cardinality(UploadedFiles)
    /\ \A i \in SettledAt("/issues.json") :
          (events[i].ok /\ events[i].outcome.hasIssue) => Responded(201)

\* C2 witness: two attachments, one uploaded and one failed, ticket created.
PartialUploadCreated ==
    /\ pc = "done" /\ TicketRequest /\ Responded(201)
    /\ Len(req.files) = 2
    /\ Cardinality(UploadedFiles) = 1

RejectedWithoutUpstreamCall ==
    (TicketRequest /\ (SubjectOrDescriptionEmpty \/ IdentityUnusable))
        => /\ pc = "done"
           /\ EventsOf("request") = {}
           /\ Cardinality(EventsOf("response")) = 1
           /\ \A i \in EventsOf("response") :
                 events[i].status >= 400 /\ events[i].status <= 499

\* C4 witness: a request with attachments and an identity without email.
RejectedWithAttachments ==
    /\ TicketRequest /\ pc = "done"
    /\ ~SubjectOrDescriptionEmpty
    /\ req.body.user_info = "{name,email:''}"
    /\ Len(req.files) = 2
    /\ Responded(400)

\* Where the piece x stands in the sequence of pieces d.
Positions(d, x) == {k \in 1..Len(d) : d[k] = x}

\* C5: a failed create call is answered with the upstream status when there
\* is one and with 500 otherwise, and `details` is the upstream error body
\* when one came, else the error message.
CreateFailurePropagated ==
    /\ \A i \in SettledAt("/issues.json") :
          ~events[i].ok =>
             LET err == events[i].outcome
                 bodyCame == err.hasResponse /\ err.data # ""
             IN /\ i + 1 \in EventsOf("response")
                /\ events[i + 1].status = (IF err.hasResponse THEN err.status ELSE 500)
                /\ events[i + 1].body.details = (IF bodyCame THEN err.data ELSE err.message)
    /\ (TicketRequest /\ pc = "done" /\ CreateRequests = {} /\ ~Responded(400))
          => \A i \in EventsOf("response") :
                /\ events[i].status = 500
                /\ events[i].body.details = CredentialsMessage

\* C5 witness: the upstream refused the create call with 422 and a body.
UpstreamRefusedCreate ==
    /\ pc = "done" /\ TicketRequest
    /\ \E i \in SettledAt("/issues.json") :
          /\ ~events[i].ok
          /\ events[i].outcome.status = 422
    /\ Responded(422)

\* How often project x occurs in the list l, and how often an entry made
\* from x occurs in l.
Occurrences(l, x) == Cardinality({k \in 1..Len(l) : l[k] = x})
EntriesOf(l, x) ==
    Cardinality({k \in 1..Len(l) : l[k].id = x.id /\ l[k].parent = x.parent})

ProjectsAnswered == req.route = "projects" /\ pc = "done" /\ Responded(200)

\* C6: every listed project with a parent is in the group of that parent's
\* id and in no other group nor in main_projects, every project without a
\* parent is once in main_projects, and total_count is the length of the list.
ProjectsPartitioned ==
    ProjectsAnswered =>
        LET input == IF req.upstream.hasProjects THEN req.upstream.projects ELSE <<>>
            out == events[Len(events)].body
        IN /\ out.total_count = Len(input)
           /\ \A k \in 1..Len(out.main_projects) : out.main_projects[k].parent = <<>>
           /\ \A x \in Projects :
                IF x.parent # <<>>
                THEN /\ Occurrences(input, x) > 0
                        => /\ KeyString(x.parent[1]) \in DOMAIN out.subprojects
                           /\ EntriesOf(out.subprojects[KeyString(x.parent[1])], x)
                                 = Occurrences(input, x)
                     /\ \A key \in DOMAIN out.subprojects :
                           key # KeyString(x.parent[1])
                              => EntriesOf(out.subprojects[key], x) = 0
                     /\ EntriesOf(out.main_projects, x) = 0
                ELSE EntriesOf(out.main_projects, x) = Occurrences(input, x)

\* C6 witness: a list with a top-level project and two subprojects of one
\* parent has been shaped.
HierarchyShaped ==
    /\ ProjectsAnswered
    /\ req.upstream.hasProjects
    /\ Len(req.upstream.projects) = 3
    /\ \E a, b, c \in 1..3 :
          /\ a # b
          /\ req.upstream.projects[a].parent = <<1>>
          /\ req.upstream.projects[b].parent = <<1>>
          /\ req.upstream.projects[c].parent = <<>>

\* The labels of the additional-information lines, in the fixed order, and
\* the field each one prints.
AdditionalLabels == <<ModuloLabel, TramiteLabel, OperacionLabel>>
AdditionalValues ==
    <<req.body.modulo, req.body.numero_tramite, req.body.identificador_operacion>>
FieldPresent(k) == AdditionalValues[k] # NoValue /\ AdditionalValues[k] # ""

\* C7: the description sent upstream has the additional-information header
\* exactly when one of the three fields is present; it is then followed by
\* one line per present field, in the order modulo, numero_tramite,
\* identificador_operacion, and by nothing else.
AdditionalSectionListsPresentFields ==
    \A i \in CreateRequests :
        LET d == events[i].data.issue.description
            header == Positions(d, AdditionalHeader)
            present == {k \in 1..3 : FieldPresent(k)}
        IN /\ (header # {}) <=> (present # {})
           /\ Cardinality(header) <= 1
           /\ \A k \in 1..3 :
                 IF FieldPresent(k)
                 THEN /\ Cardinality(Positions(d, AdditionalLabels[k])) = 1
                      /\ \A at \in Positions(d, AdditionalLabels[k]) :
                            /\ at + 2 <= Len(d)
                            /\ d[at + 1] = AdditionalValues[k]
                            /\ d[at + 2] = "\n"
                            /\ \A h \in header :
                                  at = h + 1 + 3 * Cardinality({j \in present : j < k})
                 ELSE Positions(d, AdditionalLabels[k]) = {}
           /\ \A h \in header : Len(d) = h + 3 * Cardinality(present)

\* C7 witness: a create call whose request had no modulo but the two other
\* fields.
TwoAdditionalFieldsSent ==
    /\ TicketRequest /\ CreateRequests # {}
    /\ ~FieldPresent(1) /\ FieldPresent(2) /\ FieldPresent(3)

FailureAudits ==
    {i \in EventsOf("audit") : events[i].action = "CREATE_TICKET_FAILED"}
SuccessAudits ==
    {i \in EventsOf("audit") : events[i].action = "CREATE_TICKET"}

\* C8: a create call that came back as Failure leaves a CREATE_TICKET_FAILED
\* audit record before the error response, and a CREATE_TICKET record is
\* written exactly when the create call came back as Success (read as a
\* Success that carries the created issue).  Stated as the claim has it; the
\* failure branch writes no audit record.
CreateOutcomeAudited ==
    \A i \in SettledAt("/issues.json") :
        /\ ~events[i].ok
              => \E a \in FailureAudits, r \in EventsOf("response") : i < a /\ a < r
        /\ (events[i].ok /\ events[i].outcome.hasIssue) <=> SuccessAudits # {}

\* The attachment an upload reference was made for.
FileOfUpload(upload) == upload.token[2]

\* The handler went past validation and identity.
Accepted == TicketRequest /\ ~(pc = "done" /\ Responded(400))

\* C9: uploads go out one at a time in the order of the request, a failed
\* upload stops neither the later uploads nor the create call, and the
\* create payload lists the successful attachments in request order.
UploadsSequentialInOrder ==
    /\ Cardinality(inflight) <= 1
    /\ \A i \in UploadRequests :
          \* the n-th upload request is for the n-th attachment ...
          /\ events[i].file = Cardinality({j \in UploadRequests : j <= i})
          \* ... and every earlier one has settled before it
          /\ \A j \in UploadRequests :
                j < i => \E k \in SettledAt("/uploads.json") :
                            j < k /\ k < i /\ events[k].file = events[j].file
    /\ (Accepted /\ redmineConfig.url # NoValue /\ pc \in {"awaitCreate", "done"})
          => /\ Cardinality(UploadRequests) = Len(req.files)
             /\ Cardinality(SettledAt("/uploads.json")) = Len(req.files)
    /\ (Accepted /\ CredentialsConfigured /\ pc \in {"awaitCreate", "done"})
          => Cardinality(CreateRequests) = 1
    /\ \A i \in CreateRequests :
          LET issue == events[i].data.issue
              list == IF "uploads" \in DOMAIN issue THEN issue.uploads ELSE <<>>
          IN /\ {FileOfUpload(list[k]) : k \in 1..Len(list)} = UploadedFiles
             /\ \A k \in 1..Len(list) :
                   /\ list[k].filename = req.files[FileOfUpload(list[k])].originalname
                   /\ k > 1 => FileOfUpload(list[k - 1]) < FileOfUpload(list[k])

\* C9 witness: the first of two uploads failed, the second succeeded, and the
\* create call went out with the second attachment.
CreateAfterFailedUpload ==
    /\ TicketRequest /\ Len(req.files) = 2
    /\ UploadedFiles = {2}
    /\ \E i \in CreateRequests : Len(events[i].data.issue.uploads) = 1

\* What holds of one ticket request at every moment.
TicketSafety ==
    TicketRequest =>
        /\ Cardinality(EventsOf("response")) <= 1
        /\ pc = "done" <=> Cardinality(EventsOf("response")) = 1
        /\ pc = "done" => inflight = {}
        /\ Cardinality(CreateRequests) <= 1
        /\ \A i \in CreateRequests :
              \* every attachment has been dealt with before the create call
              /\ \A j \in UploadRequests :
                    j < i /\ \E k \in SettledAt("/uploads.json") :
                                j < k /\ k < i /\ events[k].file = events[j].file
              /\ redmineConfig.url # NoValue
                    => {events[j].file : j \in UploadRequests} = 1..Len(req.files)
        /\ \A i \in SettledAt("/issues.json") :
              \A j \in EventsOf("request") : j < i

\* C10: a ticket request ends with exactly one response, makes at most one
\* create call, that call after all of its uploads have settled, and makes
\* no upstream call once the create call has returned.
TicketRequestTerminates ==
    /\ []TicketSafety
    /\ (pc # "idle" /\ TicketRequest) ~> (pc = "done" /\ Cardinality(EventsOf("response")) = 1)

\* C10 witness: the upstream answered the create call with a body without
\* `issue`, after two uploads, and the request has been answered.
AnsweredAfterMalformedSuccess ==
    /\ TicketRequest /\ pc = "done"
    /\ Len(req.files) = 2
    /\ Cardinality(UploadRequests) = 2
    /\ \E i \in SettledAt("/issues.json") : events[i].ok /\ ~events[i].outcome.hasIssue
    /\ Responded(500)

=============================================================================
